---- MODULE Spec2Model ----
(***************************************************************************)
(* hue_reflect: a model of src/src/main.rs.                                *)
(*                                                                         *)
(* The program loads an image, reflects the hue of every pixel about an    *)
(* axis given on the command line, and saves the result.  Rows are handed  *)
(* to one thread each in batches of core_count; the trailing               *)
(* height % core_count rows are processed by the main thread.              *)
(*                                                                         *)
(* f32 values are modelled as exact rationals [n, d] (d > 0, lowest        *)
(* terms) plus NaN (d = 0); rounding of f32 arithmetic is not modelled.    *)
(* The `as u8` cast is modelled as Rust defines it: NaN -> 0, saturating,  *)
(* truncating toward zero.                                                 *)
(***************************************************************************)
EXTENDS Integers, Sequences, FiniteSets, TLC

(***************************************************************************)
(* Bounds of the model.                                                    *)
(***************************************************************************)
MaxH == 3
MaxWidth == 2
MaxW == 2
MaxReflect == 2

(***************************************************************************)
(* f32 arithmetic on exact rationals.  The arithmetic is written as        *)
(* functions, whose arguments are values when the body is evaluated; the   *)
(* operators of the same names in capitals apply them.                     *)
(***************************************************************************)
Abs(i) == IF i < 0 THEN -i ELSE i

\* Euclid's algorithm.
gcd[a \in Nat, b \in Nat] == IF b = 0 THEN a ELSE gcd[b, a % b]

F32 == [n : Int, d : Nat]

NaN == [n |-> 0, d |-> 0]

IsNaN(a) == a.d = 0

\* n/d in lowest terms with a positive denominator (d # 0).
norm[n \in Int, d \in Int] ==
    [n |-> (IF d < 0 THEN -n ELSE n) \div gcd[Abs(n), Abs(d)],
     d |-> Abs(d) \div gcd[Abs(n), Abs(d)]]

Norm(n, d) == norm[n, d]

R(i) == [n |-> i, d |-> 1]

radd[a \in F32, b \in F32] ==
    IF IsNaN(a) \/ IsNaN(b) THEN NaN
    ELSE norm[a.n * b.d + b.n * a.d, a.d * b.d]

rsub[a \in F32, b \in F32] ==
    IF IsNaN(a) \/ IsNaN(b) THEN NaN
    ELSE norm[a.n * b.d - b.n * a.d, a.d * b.d]

rmul[a \in F32, b \in F32] ==
    IF IsNaN(a) \/ IsNaN(b) THEN NaN
    ELSE norm[a.n * b.n, a.d * b.d]

\* IEEE division: 0/0 is NaN.  A nonzero value over zero (an infinity) is
\* left undefined: the CASE has no arm for it, so evaluating it is an error.
rdiv[a \in F32, b \in F32] ==
    CASE IsNaN(a) \/ IsNaN(b) -> NaN
      [] b.n = 0 /\ a.n = 0   -> NaN
      [] b.n # 0              -> norm[a.n * b.d, a.d * b.n]

\* Comparisons: every comparison with NaN is false.
rlt[a \in F32, b \in F32] == ~IsNaN(a) /\ ~IsNaN(b) /\ a.n * b.d < b.n * a.d
rle[a \in F32, b \in F32] == ~IsNaN(a) /\ ~IsNaN(b) /\ a.n * b.d <= b.n * a.d
req[a \in F32, b \in F32] == ~IsNaN(a) /\ ~IsNaN(b) /\ a.n * b.d = b.n * a.d

RAdd(a, b) == radd[a, b]
RSub(a, b) == rsub[a, b]
RMul(a, b) == rmul[a, b]
RDiv(a, b) == rdiv[a, b]
RLt(a, b) == rlt[a, b]
RLe(a, b) == rle[a, b]
REq(a, b) == req[a, b]

\* Truncation toward zero of a rational.
trunc[a \in F32] == IF a.n >= 0 THEN a.n \div a.d ELSE -((-a.n) \div a.d)

Trunc(a) == trunc[a]

\* Rust's `x as u8` for an f32 x.
f32_as_u8[a \in F32] ==
    IF IsNaN(a) THEN 0
    ELSE IF a.n < 0 THEN 0
    ELSE IF a.n > 255 * a.d THEN 255
    ELSE trunc[a]

as_u8(a) == f32_as_u8[a]

\* Rust's `a % m` on f32: the remainder of truncated division, with the
\* sign of the dividend.
f32_rem_fn[a \in F32, m \in F32] == rsub[a, rmul[m, R(trunc[rdiv[a, m]])]]

f32_rem(a, m) == f32_rem_fn[a, m]

Max3(r, g, b) == IF r >= g /\ r >= b THEN r ELSE IF g >= b THEN g ELSE b
Min3(r, g, b) == IF r <= g /\ r <= b THEN r ELSE IF g <= b THEN g ELSE b

(***************************************************************************)
(* The colour functions.  Each returns [ok, ...]: ok = FALSE is a panic    *)
(* at an unreachable!() arm.  A function of the source is written as a     *)
(* chain of operators, one per group of `let`s, each passing the values    *)
(* bound so far to the next.                                               *)
(***************************************************************************)
NoHsv == <<NaN, NaN, NaN>>

\* x as f32 / 255.
channel(v) == RDiv(R(v), R(255))

\* The arm the match on big_m takes (lines 21-27), in the order written:
\* 0 for big_m == little_m, 1 red, 2 green, 3 blue, 4 for unreachable!().
match_big_m(big_m, little_m, little_r, little_g, little_b) ==
    CASE REq(big_m, little_m) -> 0
      [] REq(big_m, little_r) -> 1
      [] REq(big_m, little_g) -> 2
      [] REq(big_m, little_b) -> 3
      [] OTHER                -> 4

\* h_prime of the arm taken, from (big_r, big_g, big_b) of lines 16-20.
h_prime_of(arm, big_r, big_g, big_b) ==
    CASE arm = 0 -> R(0)
      [] arm = 1 -> RSub(big_b, big_g)
      [] arm = 2 -> RSub(RAdd(R(2), big_r), big_b)
      [] arm = 3 -> RSub(RAdd(R(4), big_g), big_r)
      [] OTHER   -> NaN

\* Lines 28-30: h = h_prime / 6. * 360.; v = big_m * 100.
hsv_pack(arm, h_prime, s, big_m) ==
    IF arm = 4 THEN [ok |-> FALSE, hsv |-> NoHsv]
    ELSE [ok |-> TRUE,
          hsv |-> <<RMul(RDiv(h_prime, R(6)), R(360)), s, RMul(big_m, R(100))>>]

\* Lines 13-27, given c = big_m - little_m.
rgb_to_hsv_c(big_m, little_m, little_r, little_g, little_b, c, arm) ==
    hsv_pack(arm,
             h_prime_of(arm,
                        RDiv(RSub(big_m, little_r), c),
                        RDiv(RSub(big_m, little_g), c),
                        RDiv(RSub(big_m, little_b), c)),
             RMul(RDiv(c, big_m), R(100)),
             big_m)

\* Lines 11-13, given the three channels.
rgb_to_hsv_m(big_m, little_m, little_r, little_g, little_b) ==
    rgb_to_hsv_c(big_m, little_m, little_r, little_g, little_b,
                 RSub(big_m, little_m),
                 match_big_m(big_m, little_m, little_r, little_g, little_b))

\* fn rgb_to_hsv(pixel: &Rgb<u8>) -> Hsv
rgb_to_hsv(pixel) ==
    rgb_to_hsv_m(channel(Max3(pixel[1], pixel[2], pixel[3])),
                 channel(Min3(pixel[1], pixel[2], pixel[3])),
                 channel(pixel[1]), channel(pixel[2]), channel(pixel[3]))

\* The fold without its first branch.
hue_fold_never(hue) == RDiv(hue, R(60))

\* Lines 38-42: a hue of 300 or more is taken as hue - 360.
hue_fold(hue) ==
    IF RLe(R(300), hue) THEN RDiv(RSub(hue, R(360)), R(60))
    ELSE RDiv(hue, R(60))

\* The arm the match on h_prime takes (lines 43-66); 4 is unreachable!().
match_h_prime(h_prime) ==
    CASE RLe(R(-1), h_prime) /\ RLt(h_prime, R(1)) -> 1
      [] RLe(R(1), h_prime) /\ RLt(h_prime, R(3))  -> 2
      [] RLe(R(3), h_prime) /\ RLt(h_prime, R(5))  -> 3
      [] OTHER                                     -> 4

\* (r, g, b) of the arm taken; hc0, hc2, hc4 are h_prime * c,
\* (h_prime - 2.) * c and (h_prime - 4.) * c.
sector_rgb(arm, h_prime, max, min, hc0, hc2, hc4) ==
    CASE arm = 1 -> IF RLt(h_prime, R(0)) THEN <<max, min, RSub(min, hc0)>>
                    ELSE <<max, RAdd(min, hc0), min>>
      [] arm = 2 -> IF RLt(h_prime, R(2)) THEN <<RSub(min, hc2), max, min>>
                    ELSE <<min, max, RAdd(min, hc2)>>
      [] arm = 3 -> IF RLt(h_prime, R(4)) THEN <<min, RSub(min, hc4), max>>
                    ELSE <<RAdd(min, hc4), min, max>>
      [] OTHER   -> <<NaN, NaN, NaN>>

\* Line 67: Rgb([(r * 255.) as u8, (g * 255.) as u8, (b * 255.) as u8])
rgb_pack(arm, rgb) ==
    IF arm = 4 THEN [ok |-> FALSE, rgb |-> <<0, 0, 0>>]
    ELSE [ok |-> TRUE,
          rgb |-> <<as_u8(RMul(rgb[1], R(255))),
                    as_u8(RMul(rgb[2], R(255))),
                    as_u8(RMul(rgb[3], R(255)))>>]

\* Lines 43-67, given h_prime, max, c and min.
hsv_to_rgb_m(arm, h_prime, max, c, min) ==
    rgb_pack(arm,
             sector_rgb(arm, h_prime, max, min,
                        RMul(h_prime, c),
                        RMul(RSub(h_prime, R(2)), c),
                        RMul(RSub(h_prime, R(4)), c)))

\* Lines 35-42, given hue and the normalised saturation and value.
hsv_to_rgb_c(h_prime, value, c) ==
    hsv_to_rgb_m(match_h_prime(h_prime), h_prime, value, c, RSub(value, c))

hsv_to_rgb_s(hue, saturation, value) ==
    hsv_to_rgb_c(hue_fold(hue), value, RMul(saturation, value))

\* fn hsv_to_rgb(pixel: &Hsv) -> Rgb<u8>
hsv_to_rgb(pixel) ==
    hsv_to_rgb_s(pixel[1], RDiv(pixel[2], R(100)), RDiv(pixel[3], R(100)))

\* while angle < 0. { angle += 360.; }
while_negative[angle \in F32] ==
    IF rlt[angle, R(0)] THEN while_negative[radd[angle, R(360)]] ELSE angle

wrap_angle(angle) == while_negative[angle]

\* The reflection with a negative angle negated instead of wrapped.
reflect_hue_negate(hue, axis) ==
    RAdd(RSub(R(360),
              IF RLt(RSub(hue, axis), R(0)) THEN RSub(axis, hue)
              ELSE RSub(hue, axis)),
         axis)

\* The reflection without the loop of lines 75-77.
reflect_hue_no_wrap(hue, axis) ==
    RAdd(RSub(R(360), RSub(hue, axis)), axis)

\* Lines 74-79 on the hue alone.
reflect_hue(hue, axis) ==
    RAdd(RSub(R(360), wrap_angle(RSub(hue, axis))), axis)

\* fn hsv_reflect(pixel: &Hsv, reflect_angle: f32) -> Hsv
hsv_reflect(pixel, axis) ==
    <<reflect_hue(pixel[1], axis), pixel[2], pixel[3]>>

\* The output pixel made opaque instead of carrying the input alpha.
new_pixel_opaque(pixel, new_rgb) ==
    IF ~new_rgb.ok THEN [ok |-> FALSE, px |-> <<0, 0, 0, 0>>]
    ELSE [ok |-> TRUE,
          px |-> <<new_rgb.rgb[1], new_rgb.rgb[2], new_rgb.rgb[3], 255>>]

\* Rgba([new_rgb[0], new_rgb[1], new_rgb[2], pixel[3]])
new_pixel(pixel, new_rgb) ==
    IF ~new_rgb.ok THEN [ok |-> FALSE, px |-> <<0, 0, 0, 0>>]
    ELSE [ok |-> TRUE,
          px |-> <<new_rgb.rgb[1], new_rgb.rgb[2], new_rgb.rgb[3], pixel[4]>>]

\* Lines 117-119, given hsv = rgb_to_hsv(&pxl).
transform_hsv(pixel, axis, hsv) ==
    IF ~hsv.ok THEN [ok |-> FALSE, px |-> <<0, 0, 0, 0>>]
    ELSE new_pixel(pixel, hsv_to_rgb(hsv_reflect(hsv.hsv, axis)))

\* The body of the per-pixel loops of main (lines 113-119 and 128-134): an
\* RGBA pixel in, an RGBA pixel out, or a panic.
transform(pixel, axis) ==
    transform_hsv(pixel, axis,
                  rgb_to_hsv(<<pixel[1], pixel[2], pixel[3]>>))

(***************************************************************************)
(* Inputs.                                                                 *)
(***************************************************************************)
\* RGBA pixels the input image is made of: red, black (half transparent),
\* cyan, magenta, two colours with three distinct channels, and a grey.
Palette == << <<255, 0, 0, 255>>, <<0, 0, 0, 128>>, <<0, 255, 255, 255>>,
              <<255, 0, 255, 64>>, <<200, 100, 50, 9>>, <<50, 200, 100, 1>>,
              <<128, 128, 128, 200>> >>

\* Values of args[2] after parse::<f32>().
AngleArgs == {R(-170), R(0), R(90), R(370), Norm(359, 2)}

Coords(w, h) == (0 .. w - 1) \X (0 .. h - 1)

\* A decoded image of w x h pixels: the palette laid out row-major from
\* entry `seed`.
Image(w, h, seed) ==
    [c \in Coords(w, h) |-> Palette[((seed + c[1] + c[2] * w) % Len(Palette)) + 1]]

\* (args[2].parse::<f32>()...) % 180.
parse_axis(arg) == f32_rem(arg, R(180))

\* The axes main can compute from the angle arguments.
Axes == {parse_axis(a) : a \in AngleArgs}

PixelSet == {Palette[i] : i \in 1 .. Len(Palette)}

\* transform, tabulated over the pixels and axes of the model: the
\* per-pixel loops look the result up, so that the colour arithmetic is
\* evaluated once per pixel value and axis rather than at every step.
TransformTable == {<<p, a, transform(p, a)>> : p \in PixelSet, a \in Axes}

transform_at(pixel, axis) ==
    (CHOOSE t \in TransformTable : t[1] = pixel /\ t[2] = axis)[3]

(***************************************************************************)
(* State of main.                                                          *)
(***************************************************************************)
VARIABLES
    pc,             \* position of the main thread
    core_count,     \* num_cpus::get() as u32
    arg_angle,      \* args[2] parsed as f32
    reflect_angle,  \* arg_angle % 180.
    width, height,  \* img.dimensions()
    img,            \* the decoded input image
    new_img,        \* the ImageBuffer behind Arc<Mutex<..>>
    handles,        \* the spawned threads: [row, x, status]
    y, y_inner, x,  \* loop variables of the main thread
    join_i,         \* index of the handle the join loop is at
    failure,        \* why the main thread panicked
    saved,          \* output.png has been written
    writes,         \* number of put_pixel calls per coordinate
    fn              \* state of the function-level specification

vars == <<pc, core_count, arg_angle, reflect_angle, width, height, img,
          new_img, handles, y, y_inner, x, join_i, failure, saved, writes, fn>>

inputs == <<core_count, arg_angle, width, height, img>>

FnIdle == [pc |-> "idle"]

\* ImageBuffer::new(width, height): every channel zero.
ImageBuffer_new(w, h) == [c \in Coords(w, h) |-> <<0, 0, 0, 0>>]

\* put_pixel under the mutex: the lock is taken, the pixel stored and the
\* lock released within the one statement, so the store is atomic.
put_pixel(grid, px, py, pixel) == [grid EXCEPT ![<<px, py>>] = pixel]

\* 0..height/core_count
batch_count(h, cc) == h \div cc

\* The row index without y_inner.
worker_row_no_inner(yy, yi, cc) == yy * cc

\* y*core_count+y_inner
worker_row(yy, yi, cc) == yy * cc + yi

\* The remainder pass starting one row late.
remainder_start_late(h, cc) == (h \div cc) * cc + 1

\* height/core_count*core_count
remainder_start(h, cc) == (h \div cc) * cc

\* The result of join discarded instead of unwrapped.
join_result_ignored(status) == FALSE

\* handle.join().unwrap(): TRUE when the unwrap panics.
join_unwrap_panics(status) == status = "panicked"

\* The join loop ending one handle early.
handles_exhausted_early(i, n) == i >= n

\* for handle in handles: the loop is over after the last handle.
handles_exhausted(i, n) == i > n

NoFailure == [kind |-> "none", idx |-> 0]

Init ==
    /\ pc = "start"
    /\ core_count \in 0 .. MaxW
    /\ arg_angle \in AngleArgs
    /\ reflect_angle = R(0)
    /\ width \in 0 .. MaxWidth
    /\ height \in 0 .. MaxH
    /\ \E seed \in 0 .. Len(Palette) - 1 : img = Image(width, height, seed)
    /\ new_img = ImageBuffer_new(width, height)
    /\ handles = << >>
    /\ y = 0 /\ y_inner = 0 /\ x = 0
    /\ join_i = 1
    /\ failure = NoFailure
    /\ saved = FALSE
    /\ writes = [c \in Coords(width, height) |-> 0]
    /\ fn = FnIdle

\* Lines 93-98: the axis is the angle argument modulo 180; the output
\* buffer is allocated.
Load ==
    /\ pc = "start"
    /\ reflect_angle' = parse_axis(arg_angle)
    /\ pc' = "dispatch"
    /\ UNCHANGED <<inputs, new_img, handles, y, y_inner, x, join_i, failure,
                   saved, writes, fn>>

\* Line 107: the range 0..height/core_count is evaluated; a u32 division by
\* zero panics.
Dispatch ==
    /\ pc = "dispatch"
    /\ IF core_count = 0
       THEN /\ pc' = "panicked"
            /\ failure' = [kind |-> "div_by_zero", idx |-> 0]
       ELSE /\ pc' = "spawn"
            /\ UNCHANGED failure
    /\ y' = 0 /\ y_inner' = 0
    /\ UNCHANGED <<inputs, reflect_angle, new_img, handles, x, join_i, saved,
                   writes, fn>>

\* Lines 107-124: one thread::spawn per step; the thread starts at once.
Spawn ==
    /\ pc = "spawn"
    /\ y < batch_count(height, core_count)
    /\ handles' = Append(handles, [row |-> worker_row(y, y_inner, core_count),
                                   x |-> 0, status |-> "running"])
    /\ IF y_inner + 1 < core_count
       THEN y_inner' = y_inner + 1 /\ y' = y
       ELSE y_inner' = 0 /\ y' = y + 1
    /\ UNCHANGED <<pc, inputs, reflect_angle, new_img, x, join_i, failure,
                   saved, writes, fn>>

\* Line 126: the spawn loop is over; the remainder pass starts at
\* height/core_count*core_count.
SpawnDone ==
    /\ pc = "spawn"
    /\ y >= batch_count(height, core_count)
    /\ pc' = "remainder"
    /\ y' = remainder_start(height, core_count)
    /\ x' = 0 /\ y_inner' = 0
    /\ UNCHANGED <<inputs, reflect_angle, new_img, handles, join_i, failure,
                   saved, writes, fn>>

\* Lines 127-136: one pixel of the remainder pass, on the main thread.  A
\* panic in the transform unwinds main.
RemainderPixel ==
    /\ pc = "remainder"
    /\ y < height /\ width > 0
    /\ LET t == transform_at(img[<<x, y>>], reflect_angle)
       IN  IF t.ok
           THEN /\ new_img' = put_pixel(new_img, x, y, t.px)
                /\ writes' = [writes EXCEPT ![<<x, y>>] = @ + 1]
                /\ IF x + 1 < width
                   THEN x' = x + 1 /\ y' = y
                   ELSE x' = 0 /\ y' = y + 1
                /\ UNCHANGED <<pc, failure>>
           ELSE /\ pc' = "panicked"
                /\ failure' = [kind |-> "remainder", idx |-> 0]
                /\ UNCHANGED <<new_img, writes, x, y>>
    /\ UNCHANGED <<inputs, reflect_angle, handles, y_inner, join_i, saved, fn>>

\* Line 137 -> 139: the remainder loop is over; the join loop starts.
RemainderDone ==
    /\ pc = "remainder"
    /\ (y >= height \/ width = 0)
    /\ pc' = "join"
    /\ join_i' = 1
    /\ UNCHANGED <<inputs, reflect_angle, new_img, handles, y, y_inner, x,
                   failure, saved, writes, fn>>

\* Threads run until the process ends.
ProcessAlive == pc \notin {"exited"}

\* Lines 112-121: one pixel of a spawned thread's row.  A panic in the
\* transform ends the thread before the lock is taken.
WorkerPixel(k) ==
    /\ ProcessAlive
    /\ k \in 1 .. Len(handles)
    /\ handles[k].status = "running"
    /\ handles[k].x < width
    /\ LET hd == handles[k]
           t == transform_at(img[<<hd.x, hd.row>>], reflect_angle)
       IN  IF t.ok
           THEN /\ new_img' = put_pixel(new_img, hd.x, hd.row, t.px)
                /\ writes' = [writes EXCEPT ![<<hd.x, hd.row>>] = @ + 1]
                /\ handles' = [handles EXCEPT ![k].x = @ + 1]
           ELSE /\ handles' = [handles EXCEPT ![k].status = "panicked"]
                /\ UNCHANGED <<new_img, writes>>
    /\ UNCHANGED <<pc, inputs, reflect_angle, y, y_inner, x, join_i, failure,
                   saved, fn>>

\* Line 122: the closure returns.
WorkerExit(k) ==
    /\ ProcessAlive
    /\ k \in 1 .. Len(handles)
    /\ handles[k].status = "running"
    /\ handles[k].x >= width
    /\ handles' = [handles EXCEPT ![k].status = "finished"]
    /\ UNCHANGED <<pc, inputs, reflect_angle, new_img, y, y_inner, x, join_i,
                   failure, saved, writes, fn>>

\* Lines 139-141: handle.join().unwrap() on the next handle, in spawn
\* order; join blocks until the thread has ended.
Join ==
    /\ pc = "join"
    /\ ~handles_exhausted(join_i, Len(handles))
    /\ handles[join_i].status # "running"
    /\ IF join_unwrap_panics(handles[join_i].status)
       THEN /\ pc' = "panicked"
            /\ failure' = [kind |-> "join", idx |-> join_i]
            /\ UNCHANGED join_i
       ELSE /\ join_i' = join_i + 1
            /\ UNCHANGED <<pc, failure>>
    /\ UNCHANGED <<inputs, reflect_angle, new_img, handles, y, y_inner, x,
                   saved, writes, fn>>

\* Line 141 -> 146: every handle has been joined.
JoinDone ==
    /\ pc = "join"
    /\ handles_exhausted(join_i, Len(handles))
    /\ pc' = "save"
    /\ UNCHANGED <<inputs, reflect_angle, new_img, handles, y, y_inner, x,
                   join_i, failure, saved, writes, fn>>

\* Line 146: new_img.lock().unwrap().save("output.png").unwrap()
Save ==
    /\ pc = "save"
    /\ saved' = TRUE
    /\ pc' = "done"
    /\ UNCHANGED <<inputs, reflect_angle, new_img, handles, y, y_inner, x,
                   join_i, failure, writes, fn>>

\* A panic of the main thread ends the process, and with it every thread
\* still running.
Abort ==
    /\ pc = "panicked"
    /\ pc' = "exited"
    /\ UNCHANGED <<inputs, reflect_angle, new_img, handles, y, y_inner, x,
                   join_i, failure, saved, writes, fn>>

Next ==
    \/ Load
    \/ Dispatch
    \/ Spawn
    \/ SpawnDone
    \/ RemainderPixel
    \/ RemainderDone
    \/ \E k \in 1 .. Len(handles) : WorkerPixel(k)
    \/ \E k \in 1 .. Len(handles) : WorkerExit(k)
    \/ Join
    \/ JoinDone
    \/ Save
    \/ Abort

Spec == Init /\ [][Next]_vars

\* The threads are scheduled by the operating system: a thread that can
\* take a step eventually takes one.
MainNext ==
    \/ Load \/ Dispatch \/ Spawn \/ SpawnDone \/ RemainderPixel
    \/ RemainderDone \/ Join \/ JoinDone \/ Save \/ Abort

FairSpec ==
    /\ Spec
    /\ WF_vars(MainNext)
    /\ \A k \in 1 .. MaxH : WF_vars(WorkerPixel(k) \/ WorkerExit(k))

(***************************************************************************)
(* The colour functions on their own: an input is drawn, the angle is      *)
(* normalised as main does, and the functions are applied in the order of  *)
(* the pixel loop, hsv_reflect up to MaxReflect times.                     *)
(***************************************************************************)
FnChannels == {0, 100, 200, 255}

FnPixels == {<<r, g, b>> : r \in FnChannels, g \in FnChannels, b \in FnChannels}

FnAngleArgs == AngleArgs \cup {R(45), R(179), R(180), R(-10), Norm(-725, 2)}

\* Hues given to hsv_reflect directly, with a fixed saturation and value.
FnHues == {R(-60), R(0), R(1), R(120), Norm(599, 2), R(300), R(359), R(400)}

FnHsvOf(hue) == <<hue, R(50), R(80)>>

FnInit ==
    /\ pc = "fn"
    /\ core_count = 1
    /\ arg_angle = R(0)
    /\ reflect_angle = R(0)
    /\ width = 0 /\ height = 0
    /\ img = Image(0, 0, 0)
    /\ new_img = ImageBuffer_new(0, 0)
    /\ handles = << >>
    /\ y = 0 /\ y_inner = 0 /\ x = 0
    /\ join_i = 1
    /\ failure = NoFailure
    /\ saved = FALSE
    /\ writes = [c \in Coords(0, 0) |-> 0]
    /\ \E a \in FnAngleArgs :
         \/ \E p \in FnPixels :
              fn = [pc |-> "parse", from |-> "rgb", rgb |-> p, arg |-> a,
                    axis |-> R(0), hsv0 |-> NoHsv, hsv |-> NoHsv, n |-> 0,
                    out |-> <<0, 0, 0>>]
         \/ \E h \in FnHues :
              fn = [pc |-> "parse", from |-> "hsv", rgb |-> <<0, 0, 0>>,
                    arg |-> a, axis |-> R(0), hsv0 |-> FnHsvOf(h),
                    hsv |-> FnHsvOf(h), n |-> 0, out |-> <<0, 0, 0>>]

FnFrame == UNCHANGED <<pc, core_count, arg_angle, reflect_angle, width,
                       height, img, new_img, handles, y, y_inner, x, join_i,
                       failure, saved, writes>>

\* Line 93.
FnParse ==
    /\ fn.pc = "parse"
    /\ fn' = [fn EXCEPT !.axis = parse_axis(fn.arg),
                        !.pc = IF fn.from = "rgb" THEN "convert" ELSE "reflect"]
    /\ FnFrame

\* Line 115.
FnRgbToHsv ==
    /\ fn.pc = "convert"
    /\ LET r == rgb_to_hsv(fn.rgb)
       IN  fn' = [fn EXCEPT !.hsv0 = r.hsv, !.hsv = r.hsv,
                            !.pc = IF r.ok THEN "reflect" ELSE "panicked"]
    /\ FnFrame

\* Line 117, applied again to its own result.
FnReflect ==
    /\ fn.pc = "reflect"
    /\ fn.n < MaxReflect
    /\ fn' = [fn EXCEPT !.hsv = hsv_reflect(fn.hsv, fn.axis), !.n = @ + 1]
    /\ FnFrame

\* Line 118.
FnHsvToRgb ==
    /\ fn.pc = "reflect"
    /\ fn.n >= 1
    /\ LET r == hsv_to_rgb(fn.hsv)
       IN  fn' = [fn EXCEPT !.out = r.rgb,
                            !.pc = IF r.ok THEN "done" ELSE "panicked"]
    /\ FnFrame

FnNext == FnParse \/ FnRgbToHsv \/ FnReflect \/ FnHsvToRgb

FnSpec == FnInit /\ [][FnNext]_vars

(***************************************************************************)
(* Helpers of the properties.                                              *)
(***************************************************************************)
Workers == 1 .. Len(handles)

AllCoords == Coords(width, height)

InRange(lo, v, hi) == RLe(lo, v) /\ RLt(v, hi)

\* The axis has been computed and lies in [0, 180).
AxisNormalised == pc # "start" /\ InRange(R(0), reflect_angle, R(180))

\* v is a whole multiple of 360.
MultipleOf360(v) == ~IsNaN(v) /\ RDiv(v, R(360)).d = 1

\* The rows floor(H/W)*W .. H-1 of the remainder pass.
RemainderRows == ((height \div core_count) * core_count) .. (height - 1)

WorkerRows == {handles[k].row : k \in Workers}

(***************************************************************************)
(* C1.  With W >= 1 the rows of the spawned workers and the rows of the    *)
(* remainder pass are pairwise disjoint and together are 0..H: no          *)
(* coordinate is ever written twice, two workers never share a row, no     *)
(* worker row is a remainder row, and when the save step is reached every  *)
(* coordinate has been written exactly once.                               *)
(***************************************************************************)
C1_RowsPartitioned ==
    core_count >= 1 =>
      /\ \A c \in AllCoords : writes[c] <= 1
      /\ \A i, j \in Workers : i # j => handles[i].row # handles[j].row
      /\ WorkerRows \cap RemainderRows = {}
      /\ pc = "remainder" => (y \in RemainderRows \/ y = height)
      /\ pc \in {"save", "done"} =>
           /\ WorkerRows \cup RemainderRows = 0 .. height - 1
           /\ \A c \in AllCoords : writes[c] = 1

C1_Witness ==
    /\ pc = "done"
    /\ core_count = 2
    /\ Len(handles) = 2
    /\ RemainderRows # {}
    /\ width = MaxWidth

(***************************************************************************)
(* C2.  The save step is reached only when every spawned worker has        *)
(* finished without a panic and has been joined and the remainder pass     *)
(* has written all its rows; with a failed worker the image is never       *)
(* saved; once saved, the output grid is not written again.                *)
(***************************************************************************)
C2_SaveAfterAll ==
    /\ [](pc \in {"save", "done"} =>
            /\ \A k \in Workers : handles[k].status = "finished"
            /\ join_i > Len(handles)
            /\ \A c \in AllCoords : c[2] \in RemainderRows => writes[c] >= 1)
    /\ []((\E k \in Workers : handles[k].status = "panicked") => ~saved)
    /\ [][(\E k \in Workers : handles[k].status = "panicked") =>
            (\E k \in Workers : handles'[k].status = "panicked")]_vars
    /\ [][saved => (new_img' = new_img /\ writes' = writes)]_vars

C2_Witness ==
    /\ saved
    /\ Len(handles) >= 2
    /\ RemainderRows # {}
    /\ width >= 1

(***************************************************************************)
(* C3.  The grid that is saved is the pixel-wise transform of the input,   *)
(* whatever the worker count and the interleaving: the result does not     *)
(* depend on W or on scheduling.                                           *)
(***************************************************************************)
C3_SameResultForEveryW ==
    saved => \A c \in AllCoords :
               /\ transform(img[c], reflect_angle).ok
               /\ new_img[c] = transform(img[c], reflect_angle).px

C3_Witness ==
    /\ saved
    /\ core_count > 1
    /\ Len(handles) >= 2
    /\ RemainderRows # {}
    /\ width = MaxWidth
    /\ \E c \in AllCoords : new_img[c] # img[c]

(***************************************************************************)
(* C4.  Every pixel written, by a worker or by the remainder pass, has     *)
(* the alpha of the input pixel at the same coordinate; in the saved grid  *)
(* this holds at every coordinate.                                         *)
(***************************************************************************)
C4_AlphaPreserved ==
    /\ \A c \in AllCoords : writes[c] > 0 => new_img[c][4] = img[c][4]
    /\ saved => \A c \in AllCoords : new_img[c][4] = img[c][4]

C4_Witness ==
    /\ saved
    /\ Len(handles) >= 1
    /\ \E c \in AllCoords :
         /\ c[2] \in WorkerRows
         /\ img[c][4] \notin {0, 255}
         /\ <<new_img[c][1], new_img[c][2], new_img[c][3]>>
              # <<img[c][1], img[c][2], img[c][3]>>
    /\ \E c \in AllCoords : c[2] \in RemainderRows /\ img[c][4] \notin {0, 255}

(***************************************************************************)
(* C5.  Hue reflection is an involution: after hsv_reflect has been        *)
(* applied twice with the same axis the hue differs from the original hue  *)
(* by a multiple of 360, and saturation and value are those of the         *)
(* original after every application.                                       *)
(***************************************************************************)
C5_ReflectInvolution ==
    (fn.pc \in {"reflect", "done", "panicked"} /\ fn.n >= 1) =>
      /\ fn.hsv[2] = fn.hsv0[2]
      /\ fn.hsv[3] = fn.hsv0[3]
      /\ fn.n = 2 => MultipleOf360(RSub(fn.hsv[1], fn.hsv0[1]))

C5_Witness ==
    /\ fn.pc = "reflect"
    /\ fn.n = 2
    /\ fn.from = "rgb"
    /\ ~REq(fn.axis, R(0))
    /\ ~REq(fn.hsv[1], fn.hsv0[1])
    /\ RLt(fn.hsv0[1], R(0))

(***************************************************************************)
(* C6 as stated.  Every hue produced lies in [0,360): the hue returned by  *)
(* rgb_to_hsv, and the hue returned by hsv_reflect for a hue in [0,360)    *)
(* and an axis in [0,180).                                                 *)
(***************************************************************************)
C6_HueInZeroTo360 ==
    /\ (fn.pc = "reflect" /\ fn.from = "rgb" /\ fn.n = 0) =>
         InRange(R(0), fn.hsv[1], R(360))
    /\ (fn.pc = "reflect" /\ fn.n = 1 /\ InRange(R(0), fn.hsv0[1], R(360))
          /\ InRange(R(0), fn.axis, R(180))) =>
         InRange(R(0), fn.hsv[1], R(360))

(***************************************************************************)
(* C6 as amended.  The hue returned by rgb_to_hsv lies in [-60,300): a     *)
(* negative hue is not wrapped.  The hue returned by hsv_reflect for a hue *)
(* in [0,360) and an axis in [0,180) lies in (0,540): it is not wrapped    *)
(* back below 360.                                                         *)
(***************************************************************************)
C6_HueRanges ==
    /\ (fn.pc = "reflect" /\ fn.from = "rgb" /\ fn.n = 0) =>
         InRange(R(-60), fn.hsv[1], R(300))
    /\ (fn.pc = "reflect" /\ fn.n = 1 /\ InRange(R(0), fn.hsv0[1], R(360))
          /\ InRange(R(0), fn.axis, R(180))) =>
         (RLt(R(0), fn.hsv[1]) /\ RLt(fn.hsv[1], R(540)))

C6_Witness ==
    /\ fn.pc = "reflect"
    /\ fn.n = 1
    /\ InRange(R(0), fn.hsv0[1], R(360))
    /\ InRange(R(0), fn.axis, R(180))
    /\ RLt(R(360), fn.hsv[1])

(***************************************************************************)
(* C7 as stated.  For every numeric angle argument, positive, zero or      *)
(* negative, the axis after the modulo-180 normalisation lies in [0,180).  *)
(***************************************************************************)
C7_AxisInZeroTo180 ==
    pc # "start" => InRange(R(0), reflect_angle, R(180))

C10_NoPanicAndSaves ==
    /\ []((AxisNormalised /\ core_count >= 1) =>
            /\ \A k \in Workers : handles[k].status # "panicked"
            /\ failure = NoFailure
            /\ pc \notin {"panicked", "exited"})
    /\ ((AxisNormalised /\ core_count >= 1) ~> saved)

\* A run that saved an image holding a pixel whose reflected hue is 300 or
\* more, the case hsv_to_rgb folds by subtracting 360.
C10_Witness ==
    /\ saved
    /\ AxisNormalised
    /\ Len(handles) >= 1
    /\ RemainderRows # {}
    /\ \E c \in AllCoords :
         RLe(R(300), hsv_reflect(rgb_to_hsv(img[c]).hsv, reflect_angle)[1])
====
